---------------------------- MODULE Spec2Model ----------------------------
(***************************************************************************)
(* Model of the ce-drivers container-engine plug-ins (docker and podman)   *)
(* and of the three places in them with concurrency and timing:            *)
(*   - ContainerWait   (state-wait coordinator),                           *)
(*   - ImagesPull      (decode loop + progressReporter watchdog),          *)
(*   - ContainerExec   (drain goroutine + exit-code inspection).           *)
(*                                                                         *)
(* Time is a natural number `now`.  Go statements take no time; time       *)
(* passes only while every goroutine of the operation is blocked (in a     *)
(* select with no ready case, or in an engine call that is in flight).     *)
(* One time unit stands for 5 seconds.                                     *)
(***************************************************************************)
EXTENDS Integers, Sequences, FiniteSets

VARIABLES
    backend,        \* "docker" or "podman": the plug-in that is loaded
    now,            \* wall-clock time
    \* ---- ContainerWait ----
    wPc,            \* position of the ContainerWait call
    wStatus,        \* argument status (the target state)
    wTimeout,       \* argument timeout
    wInterval,      \* argument interval
    wDeadline,      \* deadline of ctx (context.WithTimeout)
    wTickPending,   \* a tick is buffered in the retry ticker's channel
    wNextTick,      \* time at which the retry ticker fires next
    cstate,         \* state of the container inside the engine
    wPolls,         \* number of ContainerInspect calls issued
    wRes,           \* error returned by ContainerWait ("none" while running)
    wRetAt,         \* time at which ContainerWait returned
    wHits,          \* history: inspect calls that reported the target state
    wFails,         \* history: inspect calls that failed
    wPollsAfterHit, \* history: inspect calls issued after a hit
    wSawTarget,     \* history: the container was in the target state at
                    \* some moment of the call
    \* ---- ImagesPull ----
    pPc,            \* position of the ImagesPull call (the decode loop)
    pRes,           \* error returned by ImagesPull ("none" while running)
    pEvents,        \* number of progress events decoded so far
    pMsg,           \* the message the decode loop is handing to set
    wdPc,           \* position of the watchdog goroutine of start()
    progMsg,        \* progress.message (0 is nil, k the k-th event)
    progTs,         \* progress.timestamp
    lockW,          \* progress.RWMutex is write-locked
    pTickPending,   \* a tick is buffered in the watchdog ticker's channel
    pNextTick,      \* time at which the watchdog ticker fires next
    stopClosed,     \* stopCh is closed
    ctxCancelled,   \* the pull's context is cancelled
    wdCancels,      \* number of times the watchdog called p.cancel()
    wdTs,           \* the timestamp the watchdog's get() returned
    pLastEvAt,      \* history: time the last progress event arrived
    pMaxGap,        \* history: longest time without a progress event
    lockR,          \* progress.RWMutex is read-locked (by get)
    wdMsg,          \* the message the watchdog's get() read
    progTsOf,       \* history: the event whose set wrote progress.timestamp
                    \* (0: newProgress)
    wdTsOf,         \* history: progTsOf when get() read the timestamp
    \* ---- ContainerExec (one entry per call) ----
    ePc,            \* position of each ContainerExec call
    eCmdLen,        \* number of bytes the call's command writes
    osStdout,       \* os.Stdout: 0 is the process's own stdout, c the
                    \* write end w of the pipe made by call c
    eSaved,         \* the local `stdout` (podman): os.Stdout as saved
    eStream,        \* streams.OutputStream (podman)
    ePipe,          \* bytes sitting in the call's pipe (podman)
    eWClosed,       \* the pipe's write end w is closed (podman)
    eSent,          \* bytes of the command's output delivered so far
    eOutBuf,        \* outBuf
    dPc,            \* position of the call's drain goroutine
    eDoneCh,        \* content of the buffered channel outputDone (docker)
    eDrainErr,      \* the drain's copy ended with a read error
    eErr,           \* error ContainerExec returned ("none" while running)
    eExit,          \* ExitCode of the returned ExecResult (-1: no result)
    \* ---- main (the dispatcher) ----
    mPc,            \* position of main
    mArgc,          \* len(os.Args)
    mModule,        \* what ./<name>.so is (see Modules)
    mNew,           \* outcome of drv.New(): "none", "ok" or "failed"
    mStep,          \* index in MainOps of the next contract call
    mCalls,         \* history: the contract calls made so far, in order
    mOp,            \* the contract operation called last
    mOutcome,       \* what the engine did in that call
    mErr,           \* the error that call returned ("panic": it panicked)
    mExit           \* exit status of the process (-1 while it runs)

waitVars == <<wPc, wStatus, wTimeout, wInterval, wDeadline, wTickPending,
              wNextTick, cstate, wPolls, wRes, wRetAt, wHits, wFails,
              wPollsAfterHit, wSawTarget>>

pullVars == <<pPc, pRes, pEvents, pMsg, wdPc, progMsg, progTs, lockW,
              pTickPending, pNextTick, stopClosed, ctxCancelled, wdCancels,
              wdTs, pLastEvAt, pMaxGap, lockR, wdMsg, progTsOf, wdTsOf>>

execVars == <<ePc, eCmdLen, osStdout, eSaved, eStream, ePipe, eWClosed,
              eSent, eOutBuf, dPc, eDoneCh, eDrainErr, eErr, eExit>>

mainVars == <<mPc, mArgc, mModule, mNew, mStep, mCalls, mOp, mOutcome, mErr,
              mExit>>

vars == <<backend, now, waitVars, pullVars, execVars, mainVars>>

\* what the actions of one operation leave alone
notWait == <<pullVars, execVars, mainVars>>
notPull == <<waitVars, execVars, mainVars>>
notExec == <<now, waitVars, pullVars, mainVars>>
notMain == <<now, waitVars, pullVars, execVars>>

-----------------------------------------------------------------------------
(* Bounds of the model *)

MaxTime == 9
MaxTimeout == 4
MaxInterval == 2
MaxEvents == 2
MaxOut == 3
PipeCap == 2

Backends == {"docker", "podman"}

\* lifecycle states an engine reports for a container
ContainerStates == {"created", "running", "exited"}

Max(a, b) == IF a >= b THEN a ELSE b

CeilDiv(a, b) == (a + b - 1) \div b

-----------------------------------------------------------------------------
(***************************************************************************)
(* ContainerWait                                                           *)
(***************************************************************************)

\* docker.go:319  ctx, cancel := context.WithTimeout(context.TODO(), timeout)
WaitDeadlineLate(start, timeout) == start + timeout + timeout

WaitDeadline(start, timeout) == start + timeout

\* docker.go:322-328, the condition function handed to RetryWithContext.
\* `outcome` is what ContainerInspect gave: "inspectErr" or a container
\* state.  The result is <<done, err>>.
WaitConditionPropagates(outcome, status) ==
    IF outcome = "inspectErr" THEN <<FALSE, "inspectErr">>
    ELSE <<outcome = status, "nil">>

WaitConditionInverted(outcome, status) ==
    IF outcome = "inspectErr" THEN <<FALSE, "nil">>
    ELSE <<outcome # status, "nil">>

WaitCondition(outcome, status) ==
    IF outcome = "inspectErr" THEN <<FALSE, "nil">>
    ELSE <<outcome = status, "nil">>

\* podman.go:115  waitState := define.ContainerStateRunning
PodmanWaitState(status) == "running"

\* the ContainerExec calls the model follows
Calls == {1, 2}

\* exit codes a command can end with
ExitCodes == {0, 1}

\* the i-th byte written by the command of call c
Byte(c, i) == 10 * c + i

\* the whole output of the command of call c, in write order
CmdOutput(c) == [i \in 1..eCmdLen[c] |-> Byte(c, i)]

\* No ContainerExec call is in progress.
ExecIdle ==
    /\ ePc = [c \in Calls |-> "idle"]
    /\ eCmdLen = [c \in Calls |-> 0]
    /\ osStdout = 0
    /\ eSaved = [c \in Calls |-> 0]
    /\ eStream = [c \in Calls |-> 0]
    /\ ePipe = [c \in Calls |-> <<>>]
    /\ eWClosed = [c \in Calls |-> FALSE]
    /\ eSent = [c \in Calls |-> 0]
    /\ eOutBuf = [c \in Calls |-> <<>>]
    /\ dPc = [c \in Calls |-> "none"]
    /\ eDoneCh = [c \in Calls |-> "empty"]
    /\ eDrainErr = [c \in Calls |-> FALSE]
    /\ eErr = [c \in Calls |-> "none"]
    /\ eExit = [c \in Calls |-> -1]

\* No ImagesPull call is in progress.
PullIdle ==
    /\ pPc = "idle" /\ pRes = "none" /\ pEvents = 0 /\ pMsg = 0
    /\ wdPc = "none" /\ progMsg = 0 /\ progTs = 0 /\ lockW = FALSE
    /\ pTickPending = FALSE /\ pNextTick = 0 /\ stopClosed = FALSE
    /\ ctxCancelled = FALSE /\ wdCancels = 0 /\ wdTs = 0
    /\ pLastEvAt = 0 /\ pMaxGap = 0
    /\ lockR = FALSE /\ wdMsg = 0 /\ progTsOf = 0 /\ wdTsOf = 0

\* No ContainerWait call is in progress.
WaitIdle ==
    /\ wPc = "idle" /\ wStatus = "none" /\ wTimeout = 0 /\ wInterval = 0
    /\ wDeadline = 0 /\ wTickPending = FALSE /\ wNextTick = 0
    /\ cstate = "created" /\ wPolls = 0 /\ wRes = "none" /\ wRetAt = 0
    /\ wHits = 0 /\ wFails = 0 /\ wPollsAfterHit = 0 /\ wSawTarget = FALSE

\* main is not running: the operation is called by another program that has
\* loaded the plug-in and called New.
MainIdle ==
    /\ mPc = "idle" /\ mArgc = 2 /\ mModule = backend /\ mNew = "ok"
    /\ mStep = 0 /\ mCalls = <<>> /\ mOp = "none" /\ mOutcome = "none"
    /\ mErr = "none" /\ mExit = -1

\* ContainerWait(id, status, timeout, interval) has just been called.
InitWait ==
    /\ backend \in Backends
    /\ now = 0
    /\ MainIdle
    /\ wPc = "called"
    /\ wStatus \in ContainerStates
    /\ wTimeout \in 1..MaxTimeout
    /\ wInterval \in 1..MaxInterval
    /\ wDeadline = 0
    /\ wTickPending = FALSE
    /\ wNextTick = 0
    /\ cstate \in ContainerStates
    /\ wPolls = 0
    /\ wRes = "none"
    /\ wRetAt = 0
    /\ wHits = 0
    /\ wFails = 0
    /\ wPollsAfterHit = 0
    /\ wSawTarget = (cstate = wStatus)
    /\ PullIdle
    /\ ExecIdle

\* The engine moves the container to another state.
EngineStateChange ==
    /\ wPc \in {"select", "inspecting", "blocked"}
    /\ \E s \in ContainerStates \ {cstate} :
          /\ cstate' = s
          /\ wSawTarget' = (wSawTarget \/ s = wStatus)
    /\ UNCHANGED <<notWait, backend, now, wPc, wStatus, wTimeout, wInterval, wDeadline,
                   wTickPending, wNextTick, wPolls, wRes, wRetAt, wHits,
                   wFails, wPollsAfterHit>>

\* skupperutils.RetryWithContext(ctx, interval, f), which docker.go:322
\* calls, is a library function: it makes a ticker of period `interval`
\* and loops over  select { case <-ctx.Done(): return ctx.Err()
\*                          case <-tick.C: ok, err := f() ... }
\* returning err when f fails and nil when f reports ok.  The first call
\* of f is at the first tick.  When both cases are ready the select
\* takes either.

\* docker ContainerWait up to the first select of RetryWithContext:
\* the timeout context and the retry ticker are created.
DockerWaitEnter ==
    /\ backend = "docker" /\ wPc = "called"
    /\ wDeadline' = WaitDeadline(now, wTimeout)
    /\ wNextTick' = now + wInterval
    /\ wPc' = "select"
    /\ UNCHANGED <<notWait, backend, now, wStatus, wTimeout, wInterval, wTickPending,
                   cstate, wPolls, wRes, wRetAt, wHits, wFails,
                   wPollsAfterHit, wSawTarget>>

\* RetryWithContext: select { case <-ctx.Done(): return ctx.Err() }
\* and ContainerWait returns that error.
RetrySelectDone ==
    /\ backend = "docker" /\ wPc = "select"
    /\ now >= wDeadline
    /\ wPc' = "returned"
    /\ wRes' = "DeadlineExceeded"
    /\ wRetAt' = now
    /\ UNCHANGED <<notWait, backend, now, wStatus, wTimeout, wInterval, wDeadline,
                   wTickPending, wNextTick, cstate, wPolls, wHits, wFails,
                   wPollsAfterHit, wSawTarget>>

\* RetryWithContext: select { case <-tick.C: f() }; f issues ContainerInspect.
RetrySelectTick ==
    /\ backend = "docker" /\ wPc = "select"
    /\ wTickPending
    /\ wTickPending' = FALSE
    /\ wPc' = "inspecting"
    /\ wPolls' = wPolls + 1
    /\ wPollsAfterHit' = IF wHits > 0 THEN wPollsAfterHit + 1 ELSE wPollsAfterHit
    /\ UNCHANGED <<notWait, backend, now, wStatus, wTimeout, wInterval, wDeadline,
                   wNextTick, cstate, wRes, wRetAt, wHits, wFails, wSawTarget>>

\* What a ContainerInspect(ctx, id) that returns now can give: an error at
\* any time, the container's state only while ctx is not past its deadline.
InspectOutcomes ==
    {"inspectErr"} \cup (IF now <= wDeadline THEN {cstate} ELSE {})

\* ContainerInspect returns, the condition function evaluates it, and
\* RetryWithContext either returns (and ContainerWait with it) or loops.
InspectReturn ==
    /\ backend = "docker" /\ wPc = "inspecting"
    /\ \E outcome \in InspectOutcomes :
          LET r == WaitCondition(outcome, wStatus) IN
          /\ wHits' = IF outcome = wStatus THEN wHits + 1 ELSE wHits
          /\ wFails' = IF outcome = "inspectErr" THEN wFails + 1 ELSE wFails
          /\ IF r[2] # "nil"
               THEN /\ wPc' = "returned" /\ wRes' = r[2] /\ wRetAt' = now
               ELSE IF r[1]
                 THEN /\ wPc' = "returned" /\ wRes' = "nil" /\ wRetAt' = now
                 ELSE /\ wPc' = "select" /\ UNCHANGED <<wRes, wRetAt>>
    /\ UNCHANGED <<notWait, backend, now, wStatus, wTimeout, wInterval, wDeadline,
                   wTickPending, wNextTick, cstate, wPolls, wPollsAfterHit,
                   wSawTarget>>

\* podman ContainerWait: containers.Wait(c.ctx, id, &waitState) is issued.
PodmanWaitEnter ==
    /\ backend = "podman" /\ wPc = "called"
    /\ wPc' = "blocked"
    /\ UNCHANGED <<notWait, backend, now, wStatus, wTimeout, wInterval, wDeadline,
                   wTickPending, wNextTick, cstate, wPolls, wRes, wRetAt,
                   wHits, wFails, wPollsAfterHit, wSawTarget>>

\* containers.Wait returns once the container is in the waited-for state.
PodmanWaitReached ==
    /\ backend = "podman" /\ wPc = "blocked"
    /\ cstate = PodmanWaitState(wStatus)
    /\ wPc' = "returned" /\ wRes' = "nil" /\ wRetAt' = now
    /\ UNCHANGED <<notWait, backend, now, wStatus, wTimeout, wInterval, wDeadline,
                   wTickPending, wNextTick, cstate, wPolls, wHits, wFails,
                   wPollsAfterHit, wSawTarget>>

\* containers.Wait fails (the engine reports an error).
PodmanWaitError ==
    /\ backend = "podman" /\ wPc = "blocked"
    /\ wPc' = "returned" /\ wRes' = "engineErr" /\ wRetAt' = now
    /\ UNCHANGED <<notWait, backend, now, wStatus, wTimeout, wInterval, wDeadline,
                   wTickPending, wNextTick, cstate, wPolls, wHits, wFails,
                   wPollsAfterHit, wSawTarget>>

\* The ContainerWait call can only sit and wait.
WaitBlocked ==
    \/ wPc = "blocked"
    \/ wPc = "select" /\ ~wTickPending /\ now < wDeadline
    \/ wPc = "inspecting" /\ now < wDeadline

\* One time unit passes; the retry ticker fires when its time has come
\* (a tick is dropped when one is already buffered).
WaitTick ==
    /\ now < MaxTime
    /\ WaitBlocked
    /\ now' = now + 1
    /\ IF backend = "docker" /\ now + 1 = wNextTick
         THEN /\ wTickPending' = TRUE
              /\ wNextTick' = wNextTick + wInterval
         ELSE UNCHANGED <<wTickPending, wNextTick>>
    /\ UNCHANGED <<notWait, backend, wPc, wStatus, wTimeout, wInterval, wDeadline,
                   cstate, wPolls, wRes, wRetAt, wHits, wFails,
                   wPollsAfterHit, wSawTarget>>

NextWait ==
    \/ EngineStateChange
    \/ DockerWaitEnter
    \/ RetrySelectDone
    \/ RetrySelectTick
    \/ InspectReturn
    \/ PodmanWaitEnter
    \/ PodmanWaitReached
    \/ PodmanWaitError
    \/ WaitTick

SpecWait == InitWait /\ [][NextWait]_vars

-----------------------------------------------------------------------------
(***************************************************************************)
(* ImagesPull: the decode loop, progress.set / progress.get, and the       *)
(* watchdog goroutine of progressReporter.start                            *)
(***************************************************************************)

\* docker.go:218  newProgressReporter(refStr, cancel, 10*time.Second)
StallDeadline == 2

\* docker.go:34,170  time.NewTicker(defaultImagePullingProgressReportInterval)
CheckInterval == 2

\* docker.go:177  time.Since(timestamp) > p.imagePullProgressDeadline
StallExceededAtDeadline(t, timestamp) == t - timestamp >= StallDeadline

StallExceeded(t, timestamp) == t - timestamp > StallDeadline

\* ImagesPull(refStr, options) has just been called.
InitPull ==
    /\ backend \in Backends
    /\ now = 0
    /\ MainIdle
    /\ WaitIdle
    /\ ExecIdle
    /\ pPc = "called" /\ pRes = "none" /\ pEvents = 0 /\ pMsg = 0
    /\ wdPc = "none" /\ progMsg = 0 /\ progTs = 0 /\ lockW = FALSE
    /\ pTickPending = FALSE /\ pNextTick = 0 /\ stopClosed = FALSE
    /\ ctxCancelled = FALSE /\ wdCancels = 0 /\ wdTs = 0
    /\ pLastEvAt = 0 /\ pMaxGap = 0
    /\ lockR = FALSE /\ wdMsg = 0 /\ progTsOf = 0 /\ wdTsOf = 0

\* docker ImagesPull, lines 203-213: the cancellable context is made and
\* client.ImagePull is issued.
DockerPullEnter ==
    /\ backend = "docker" /\ pPc = "called"
    /\ pPc' = "pullReq"
    /\ UNCHANGED <<notPull, lockR, wdMsg, progTsOf, wdTsOf, backend, now, pRes, pEvents, pMsg, wdPc, progMsg, progTs, lockW,
                   pTickPending, pNextTick, stopClosed, ctxCancelled,
                   wdCancels, wdTs, pLastEvAt, pMaxGap>>

\* lines 214-216: client.ImagePull failed; the deferred cancel() runs.
PullReqFail ==
    /\ backend = "docker" /\ pPc = "pullReq"
    /\ pPc' = "returned" /\ pRes' = "pullErr"
    /\ ctxCancelled' = TRUE
    /\ UNCHANGED <<notPull, lockR, wdMsg, progTsOf, wdTsOf, backend, now, pEvents, pMsg, wdPc, progMsg, progTs, lockW,
                   pTickPending, pNextTick, stopClosed, wdCancels, wdTs,
                   pLastEvAt, pMaxGap>>

\* lines 217-221: client.ImagePull gave the response stream;
\* newProgressReporter (newProgress stamps the time), reporter.start()
\* starts the watchdog goroutine and its ticker, the decode loop begins.
PullReqOk ==
    /\ backend = "docker" /\ pPc = "pullReq"
    /\ progMsg' = 0 /\ progTs' = now
    /\ wdPc' = "select"
    /\ pTickPending' = FALSE
    /\ pNextTick' = now + CheckInterval
    /\ pLastEvAt' = now
    /\ pPc' = "decode"
    /\ UNCHANGED <<notPull, lockR, wdMsg, progTsOf, wdTsOf, backend, now, pRes, pEvents, pMsg, lockW, stopClosed, ctxCancelled,
                   wdCancels, wdTs, pMaxGap>>

\* ImagesPull returns err: the deferred reporter.stop() closes stopCh, then
\* resp.Close() and cancel() run.
PullReturn(err) ==
    /\ pPc' = "returned" /\ pRes' = err
    /\ stopClosed' = TRUE
    /\ ctxCancelled' = TRUE

\* lines 224,231,234: decoder.Decode gave a progress event without an error
\* field; reporter.set(&msg) is called.
DecodeEvent ==
    /\ backend = "docker" /\ pPc = "decode"
    /\ pEvents < MaxEvents
    /\ pEvents' = pEvents + 1
    /\ pMsg' = pEvents + 1
    /\ pLastEvAt' = now
    /\ pPc' = "setLock"
    /\ UNCHANGED <<notPull, lockR, wdMsg, progTsOf, wdTsOf, backend, now, pRes, wdPc, progMsg, progTs, lockW, pTickPending,
                   pNextTick, stopClosed, ctxCancelled, wdCancels, wdTs,
                   pMaxGap>>

\* a decode loop that records the event before it looks at its error field
DecodeErrorEventRecorded ==
    /\ backend = "docker" /\ pPc = "decode"
    /\ PullReturn("msgErr")
    /\ progMsg' = pEvents + 1
    /\ UNCHANGED <<notPull, lockR, wdMsg, progTsOf, wdTsOf, backend, now, pEvents, pMsg, wdPc, progTs, lockW,
                   pTickPending, pNextTick, wdCancels, wdTs, pLastEvAt,
                   pMaxGap>>

\* lines 231-233: the decoded event carries an error field.
DecodeErrorEvent ==
    /\ backend = "docker" /\ pPc = "decode"
    /\ PullReturn("msgErr")
    /\ UNCHANGED <<notPull, lockR, wdMsg, progTsOf, wdTsOf, backend, now, pEvents, pMsg, wdPc, progMsg, progTs, lockW,
                   pTickPending, pNextTick, wdCancels, wdTs, pLastEvAt,
                   pMaxGap>>

\* lines 225-227,236: end of stream.
DecodeEOF ==
    /\ backend = "docker" /\ pPc = "decode"
    /\ PullReturn("nil")
    /\ UNCHANGED <<notPull, lockR, wdMsg, progTsOf, wdTsOf, backend, now, pEvents, pMsg, wdPc, progMsg, progTs, lockW,
                   pTickPending, pNextTick, wdCancels, wdTs, pLastEvAt,
                   pMaxGap>>

\* lines 228-230: the errors Decode can give.  Malformed data gives a decoding
\* error; once the context is cancelled the read of the response body fails
\* with the context's error, context.Canceled (the context of line 211 has no
\* deadline).
DecodeErrors(cancelled) ==
    IF cancelled THEN {"decodeErr", "ctxCanceled"} ELSE {"decodeErr"}

\* lines 228-230: Decode failed; the error is returned as it is.
DecodeError ==
    /\ backend = "docker" /\ pPc = "decode"
    /\ \E e \in DecodeErrors(ctxCancelled) : PullReturn(e)
    /\ UNCHANGED <<notPull, lockR, wdMsg, progTsOf, wdTsOf, backend, now, pEvents, pMsg, wdPc, progMsg, progTs, lockW,
                   pTickPending, pNextTick, wdCancels, wdTs, pLastEvAt,
                   pMaxGap>>

\* progress.set, line 127: p.Lock()
SetLock ==
    /\ pPc = "setLock" /\ ~lockW /\ ~lockR
    /\ lockW' = TRUE
    /\ pPc' = "setMsg"
    /\ UNCHANGED <<notPull, lockR, wdMsg, progTsOf, wdTsOf, backend, now, pRes, pEvents, pMsg, wdPc, progMsg, progTs,
                   pTickPending, pNextTick, stopClosed, ctxCancelled,
                   wdCancels, wdTs, pLastEvAt, pMaxGap>>

\* progress.set, line 129: p.message = msg
SetMessage ==
    /\ pPc = "setMsg"
    /\ progMsg' = pMsg
    /\ pPc' = "setTs"
    /\ UNCHANGED <<notPull, lockR, wdMsg, progTsOf, wdTsOf, backend, now, pRes, pEvents, pMsg, wdPc, progTs, lockW,
                   pTickPending, pNextTick, stopClosed, ctxCancelled,
                   wdCancels, wdTs, pLastEvAt, pMaxGap>>

\* progress.set, lines 130,128: p.timestamp = time.Now(); deferred Unlock.
SetTimestamp ==
    /\ pPc = "setTs"
    /\ progTs' = now
    /\ progTsOf' = pMsg
    /\ lockW' = FALSE
    /\ pPc' = "decode"
    /\ UNCHANGED <<notPull, lockR, wdMsg, wdTsOf, backend, now, pRes, pEvents, pMsg, wdPc, progMsg, pTickPending,
                   pNextTick, stopClosed, ctxCancelled, wdCancels, wdTs,
                   pLastEvAt, pMaxGap>>

\* watchdog, line 174: select takes case <-ticker.C
WatchdogSelectTick ==
    /\ wdPc = "select" /\ pTickPending
    /\ pTickPending' = FALSE
    /\ wdPc' = "get"
    /\ UNCHANGED <<notPull, lockR, wdMsg, progTsOf, wdTsOf, backend, now, pPc, pRes, pEvents, pMsg, progMsg, progTs, lockW,
                   pNextTick, stopClosed, ctxCancelled, wdCancels, wdTs,
                   pLastEvAt, pMaxGap>>

\* watchdog, lines 185-189: select takes case <-p.stopCh; the goroutine
\* returns and the deferred ticker.Stop() runs.
WatchdogSelectStop ==
    /\ wdPc = "select" /\ stopClosed
    /\ wdPc' = "exited"
    /\ pTickPending' = FALSE
    /\ UNCHANGED <<notPull, lockR, wdMsg, progTsOf, wdTsOf, backend, now, pPc, pRes, pEvents, pMsg, progMsg, progTs, lockW,
                   pNextTick, stopClosed, ctxCancelled, wdCancels, wdTs,
                   pLastEvAt, pMaxGap>>

\* a get that does not take the read lock
WatchdogGetUnlocked ==
    /\ wdPc = "get"
    /\ lockR' = TRUE
    /\ wdPc' = "getMsg"
    /\ UNCHANGED <<notPull, wdMsg, progTsOf, wdTsOf, backend, now, pPc, pRes,
                   pEvents, pMsg, progMsg, progTs, lockW, pTickPending,
                   pNextTick, stopClosed, ctxCancelled, wdCancels, wdTs,
                   pLastEvAt, pMaxGap>>

\* progress.get, called at line 175; line 134: p.RLock()
WatchdogGet ==
    /\ wdPc = "get" /\ ~lockW
    /\ lockR' = TRUE
    /\ wdPc' = "getMsg"
    /\ UNCHANGED <<notPull, wdMsg, progTsOf, wdTsOf, backend, now, pPc, pRes,
                   pEvents, pMsg, progMsg, progTs, lockW, pTickPending,
                   pNextTick, stopClosed, ctxCancelled, wdCancels, wdTs,
                   pLastEvAt, pMaxGap>>

\* progress.get, lines 136-147: p.message is read and formatted
WatchdogGetMessage ==
    /\ wdPc = "getMsg"
    /\ wdMsg' = progMsg
    /\ wdPc' = "getTs"
    /\ UNCHANGED <<notPull, lockR, progTsOf, wdTsOf, backend, now, pPc, pRes,
                   pEvents, pMsg, progMsg, progTs, lockW, pTickPending,
                   pNextTick, stopClosed, ctxCancelled, wdCancels, wdTs,
                   pLastEvAt, pMaxGap>>

\* progress.get, lines 137,145,147: p.timestamp is read and returned; the
\* deferred p.RUnlock() of line 135 runs
WatchdogGetTimestamp ==
    /\ wdPc = "getTs"
    /\ wdTs' = progTs
    /\ wdTsOf' = progTsOf
    /\ lockR' = FALSE
    /\ wdPc' = "check"
    /\ UNCHANGED <<notPull, wdMsg, progTsOf, backend, now, pPc, pRes,
                   pEvents, pMsg, progMsg, progTs, lockW, pTickPending,
                   pNextTick, stopClosed, ctxCancelled, wdCancels,
                   pLastEvAt, pMaxGap>>

\* watchdog, lines 177-182: the stall check; p.cancel() and return, or
\* back to the select.
WatchdogCheck ==
    /\ wdPc = "check"
    /\ IF StallExceeded(now, wdTs)
         THEN /\ wdCancels' = wdCancels + 1
              /\ ctxCancelled' = TRUE
              /\ wdPc' = "exited"
              /\ pTickPending' = FALSE
         ELSE /\ wdPc' = "select"
              /\ UNCHANGED <<wdCancels, ctxCancelled, pTickPending>>
    /\ UNCHANGED <<notPull, lockR, wdMsg, progTsOf, wdTsOf, backend, now, pPc, pRes, pEvents, pMsg, progMsg, progTs, lockW,
                   pNextTick, stopClosed, wdTs, pLastEvAt, pMaxGap>>

\* podman ImagesPull, line 68: images.Pull(c.ctx, ...) is issued.
PodmanPullEnter ==
    /\ backend = "podman" /\ pPc = "called"
    /\ pPc' = "pulling"
    /\ pLastEvAt' = now
    /\ UNCHANGED <<notPull, lockR, wdMsg, progTsOf, wdTsOf, backend, now, pRes, pEvents, pMsg, wdPc, progMsg, progTs, lockW,
                   pTickPending, pNextTick, stopClosed, ctxCancelled,
                   wdCancels, wdTs, pMaxGap>>

\* podman ImagesPull, lines 69-72: images.Pull returned.
PodmanPullReturn ==
    /\ backend = "podman" /\ pPc = "pulling"
    /\ pPc' = "returned"
    /\ pRes' \in {"nil", "pullErr"}
    /\ UNCHANGED <<notPull, lockR, wdMsg, progTsOf, wdTsOf, backend, now, pEvents, pMsg, wdPc, progMsg, progTs, lockW,
                   pTickPending, pNextTick, stopClosed, ctxCancelled,
                   wdCancels, wdTs, pLastEvAt, pMaxGap>>

\* the pull is under way: the engine may still send progress
PullInFlight == pPc \in {"decode", "setLock", "setMsg", "setTs", "pulling"}

\* The ImagesPull goroutine and the watchdog can only sit and wait.
PullBlocked ==
    /\ \/ pPc = "pullReq"
       \/ pPc = "pulling"
       \/ pPc = "decode" /\ ~ctxCancelled
    /\ \/ wdPc \in {"none", "exited"}
       \/ wdPc = "select" /\ ~pTickPending /\ ~stopClosed

\* One time unit passes; the watchdog's ticker fires when its time has come.
PullTick ==
    /\ now < MaxTime
    /\ PullBlocked
    /\ now' = now + 1
    /\ IF wdPc = "select" /\ now + 1 = pNextTick
         THEN /\ pTickPending' = TRUE
              /\ pNextTick' = pNextTick + CheckInterval
         ELSE UNCHANGED <<pTickPending, pNextTick>>
    /\ pMaxGap' = IF PullInFlight THEN Max(pMaxGap, now + 1 - pLastEvAt)
                  ELSE pMaxGap
    /\ UNCHANGED <<notPull, lockR, wdMsg, progTsOf, wdTsOf, backend, pPc, pRes, pEvents, pMsg, wdPc, progMsg, progTs, lockW,
                   stopClosed, ctxCancelled, wdCancels, wdTs, pLastEvAt>>

NextPull ==
    \/ DockerPullEnter
    \/ PullReqFail
    \/ PullReqOk
    \/ DecodeEvent
    \/ DecodeErrorEvent
    \/ DecodeEOF
    \/ DecodeError
    \/ SetLock
    \/ SetMessage
    \/ SetTimestamp
    \/ WatchdogSelectTick
    \/ WatchdogSelectStop
    \/ WatchdogGet
    \/ WatchdogGetMessage
    \/ WatchdogGetTimestamp
    \/ WatchdogCheck
    \/ PodmanPullEnter
    \/ PodmanPullReturn
    \/ PullTick

SpecPull == InitPull /\ [][NextPull]_vars

-----------------------------------------------------------------------------
(***************************************************************************)
(* ContainerExec: the call and its drain goroutine                         *)
(***************************************************************************)

\* ContainerExec(id, cmd) has just been called once; the command writes
\* between 0 and MaxOut bytes.
InitExec ==
    /\ backend \in Backends
    /\ now = 0
    /\ MainIdle
    /\ WaitIdle
    /\ PullIdle
    /\ ePc = [c \in Calls |-> IF c = 1 THEN "called" ELSE "idle"]
    /\ \E n \in 0..MaxOut : eCmdLen = [c \in Calls |-> IF c = 1 THEN n ELSE 0]
    /\ osStdout = 0
    /\ eSaved = [c \in Calls |-> 0]
    /\ eStream = [c \in Calls |-> 0]
    /\ ePipe = [c \in Calls |-> <<>>]
    /\ eWClosed = [c \in Calls |-> FALSE]
    /\ eSent = [c \in Calls |-> 0]
    /\ eOutBuf = [c \in Calls |-> <<>>]
    /\ dPc = [c \in Calls |-> "none"]
    /\ eDoneCh = [c \in Calls |-> "empty"]
    /\ eDrainErr = [c \in Calls |-> FALSE]
    /\ eErr = [c \in Calls |-> "none"]
    /\ eExit = [c \in Calls |-> -1]

\* podman ContainerExec, line 297: stdout := os.Stdout
PodmanExecSave(c) ==
    /\ backend = "podman"
    /\ ePc[c] = "called"
    /\ eSaved' = [eSaved EXCEPT ![c] = osStdout]
    /\ ePc' = [ePc EXCEPT ![c] = "redirect"]
    /\ UNCHANGED <<notExec, backend, eCmdLen, osStdout, eStream, ePipe,
                   eWClosed, eSent, eOutBuf, dPc, eDoneCh, eDrainErr, eErr,
                   eExit>>

\* lines 298-299: r, w, err := os.Pipe(); os.Stdout = w
PodmanExecRedirect(c) ==
    /\ backend = "podman"
    /\ ePc[c] = "redirect"
    /\ ePipe' = [ePipe EXCEPT ![c] = <<>>]
    /\ eWClosed' = [eWClosed EXCEPT ![c] = FALSE]
    /\ osStdout' = c
    /\ ePc' = [ePc EXCEPT ![c] = "create"]
    /\ UNCHANGED <<notExec, backend, eCmdLen, eSaved, eStream, eSent, eOutBuf,
                   dPc, eDoneCh, eDrainErr, eErr, eExit>>

\* lines 301-306: containers.ExecCreate succeeded
PodmanExecCreateOk(c) ==
    /\ backend = "podman"
    /\ ePc[c] = "create"
    /\ ePc' = [ePc EXCEPT ![c] = "streams"]
    /\ UNCHANGED <<notExec, backend, eCmdLen, osStdout, eSaved, eStream, ePipe,
                   eWClosed, eSent, eOutBuf, dPc, eDoneCh, eDrainErr, eErr,
                   eExit>>

\* lines 306-309: containers.ExecCreate failed; return ExecResult{}, err
PodmanExecCreateFail(c) ==
    /\ backend = "podman"
    /\ ePc[c] = "create"
    /\ ePc' = [ePc EXCEPT ![c] = "returned"]
    /\ eErr' = [eErr EXCEPT ![c] = "createErr"]
    /\ UNCHANGED <<notExec, backend, eCmdLen, osStdout, eSaved, eStream, ePipe,
                   eWClosed, eSent, eOutBuf, dPc, eDoneCh, eDrainErr, eExit>>

\* lines 311-315: streams.OutputStream = os.Stdout
PodmanExecStreams(c) ==
    /\ backend = "podman"
    /\ ePc[c] = "streams"
    /\ eStream' = [eStream EXCEPT ![c] = osStdout]
    /\ ePc' = [ePc EXCEPT ![c] = "attach"]
    /\ UNCHANGED <<notExec, backend, eCmdLen, osStdout, eSaved, ePipe,
                   eWClosed, eSent, eOutBuf, dPc, eDoneCh, eDrainErr, eErr,
                   eExit>>

\* line 317, inside containers.ExecStartAndAttach: the next byte of the
\* command's output is written to streams.OutputStream; a write to a pipe
\* blocks while the pipe is full, and fails (PodmanAttachFail) when either
\* end of the pipe is closed.
PodmanAttachWrite(c) ==
    /\ backend = "podman"
    /\ ePc[c] = "attach"
    /\ eSent[c] < eCmdLen[c]
    /\ eStream[c] # 0 =>
          /\ ~eWClosed[eStream[c]]
          /\ dPc[eStream[c]] \notin {"send", "done"}
          /\ Len(ePipe[eStream[c]]) < PipeCap
    /\ eSent' = [eSent EXCEPT ![c] = eSent[c] + 1]
    /\ ePipe' = IF eStream[c] = 0 THEN ePipe
                ELSE [ePipe EXCEPT ![eStream[c]] =
                         Append(@, Byte(c, eSent[c] + 1))]
    /\ UNCHANGED <<notExec, backend, ePc, eCmdLen, osStdout, eSaved, eStream,
                   eWClosed, eOutBuf, dPc, eDoneCh, eDrainErr, eErr, eExit>>

\* line 317: containers.ExecStartAndAttach returned nil, the exec has ended
PodmanAttachDone(c) ==
    /\ backend = "podman"
    /\ ePc[c] = "attach"
    /\ eSent[c] = eCmdLen[c]
    /\ ePc' = [ePc EXCEPT ![c] = "spawn"]
    /\ UNCHANGED <<notExec, backend, eCmdLen, osStdout, eSaved, eStream, ePipe,
                   eWClosed, eSent, eOutBuf, dPc, eDoneCh, eDrainErr, eErr,
                   eExit>>

\* lines 317-320: containers.ExecStartAndAttach failed; return ExecResult{}, err
PodmanAttachFail(c) ==
    /\ backend = "podman"
    /\ ePc[c] = "attach"
    /\ ePc' = [ePc EXCEPT ![c] = "returned"]
    /\ eErr' = [eErr EXCEPT ![c] = "attachErr"]
    /\ UNCHANGED <<notExec, backend, eCmdLen, osStdout, eSaved, eStream, ePipe,
                   eWClosed, eSent, eOutBuf, dPc, eDoneCh, eDrainErr, eExit>>

\* lines 322-335: the drain goroutine is started, the deferred function is
\* registered
PodmanExecSpawn(c) ==
    /\ backend = "podman"
    /\ ePc[c] = "spawn"
    /\ dPc' = [dPc EXCEPT ![c] = "copy"]
    /\ ePc' = [ePc EXCEPT ![c] = "inspect"]
    /\ UNCHANGED <<notExec, backend, eCmdLen, osStdout, eSaved, eStream, ePipe,
                   eWClosed, eSent, eOutBuf, eDoneCh, eDrainErr, eErr, eExit>>

\* line 326, inside io.Copy(&outBuf, r): one byte moves from the pipe to outBuf
PodmanDrainRead(c) ==
    /\ backend = "podman"
    /\ dPc[c] = "copy"
    /\ ePipe[c] # <<>>
    /\ eOutBuf' = [eOutBuf EXCEPT ![c] = Append(@, Head(ePipe[c]))]
    /\ ePipe' = [ePipe EXCEPT ![c] = Tail(@)]
    /\ UNCHANGED <<notExec, backend, ePc, eCmdLen, osStdout, eSaved, eStream,
                   eWClosed, eSent, dPc, eDoneCh, eDrainErr, eErr, eExit>>

\* lines 326-328: io.Copy sees end of file (the pipe is empty and w is closed);
\* r.Close(); the goroutine goes to send on the unbuffered copyDone
PodmanDrainEOF(c) ==
    /\ backend = "podman"
    /\ dPc[c] = "copy"
    /\ ePipe[c] = <<>>
    /\ eWClosed[c]
    /\ dPc' = [dPc EXCEPT ![c] = "send"]
    /\ UNCHANGED <<notExec, backend, ePc, eCmdLen, osStdout, eSaved, eStream,
                   ePipe, eWClosed, eSent, eOutBuf, eDoneCh, eDrainErr, eErr,
                   eExit>>

\* lines 326-328: io.Copy ends with a read error, which is assigned to err;
\* r.Close(); the goroutine goes to send on copyDone
PodmanDrainFail(c) ==
    /\ backend = "podman"
    /\ dPc[c] = "copy"
    /\ dPc' = [dPc EXCEPT ![c] = "send"]
    /\ eDrainErr' = [eDrainErr EXCEPT ![c] = TRUE]
    /\ UNCHANGED <<notExec, backend, ePc, eCmdLen, osStdout, eSaved, eStream,
                   ePipe, eWClosed, eSent, eOutBuf, eDoneCh, eErr, eExit>>

\* line 337: containers.ExecInspect is issued
PodmanExecInspect(c) ==
    /\ backend = "podman"
    /\ ePc[c] = "inspect"
    /\ ePc' = [ePc EXCEPT ![c] = "inspecting"]
    /\ UNCHANGED <<notExec, backend, eCmdLen, osStdout, eSaved, eStream, ePipe,
                   eWClosed, eSent, eOutBuf, dPc, eDoneCh, eDrainErr, eErr,
                   eExit>>

\* lines 337,341: ExecInspect succeeded; the result is formed and the
\* deferred function starts
PodmanExecInspectOk(c) ==
    /\ backend = "podman"
    /\ ePc[c] = "inspecting"
    /\ \E x \in ExitCodes : eExit' = [eExit EXCEPT ![c] = x]
    /\ eErr' = [eErr EXCEPT ![c] = "nil"]
    /\ ePc' = [ePc EXCEPT ![c] = "deferClose"]
    /\ UNCHANGED <<notExec, backend, eCmdLen, osStdout, eSaved, eStream, ePipe,
                   eWClosed, eSent, eOutBuf, dPc, eDoneCh, eDrainErr>>

\* lines 337-340: ExecInspect failed; return ExecResult{}, err and the
\* deferred function starts
PodmanExecInspectFail(c) ==
    /\ backend = "podman"
    /\ ePc[c] = "inspecting"
    /\ eErr' = [eErr EXCEPT ![c] = "inspectErr"]
    /\ ePc' = [ePc EXCEPT ![c] = "deferClose"]
    /\ UNCHANGED <<notExec, backend, eCmdLen, osStdout, eSaved, eStream, ePipe,
                   eWClosed, eSent, eOutBuf, dPc, eDoneCh, eDrainErr, eExit>>

\* lines 326, 337-339: the goroutine assigns the read error of io.Copy to
\* the err that line 337 assigns and lines 338-339 read, with nothing that
\* orders the accesses.  One outcome of this race: the err read at lines
\* 338-339 is the read error, whatever ExecInspect returned.
PodmanExecInspectRaced(c) ==
    /\ backend = "podman"
    /\ ePc[c] = "inspecting"
    /\ eDrainErr[c]
    /\ eErr' = [eErr EXCEPT ![c] = "readErr"]
    /\ ePc' = [ePc EXCEPT ![c] = "deferClose"]
    /\ UNCHANGED <<notExec, backend, eCmdLen, osStdout, eSaved, eStream, ePipe,
                   eWClosed, eSent, eOutBuf, dPc, eDoneCh, eDrainErr, eExit>>

\* deferred function, line 332: w.Close()
PodmanDeferClose(c) ==
    /\ backend = "podman"
    /\ ePc[c] = "deferClose"
    /\ eWClosed' = [eWClosed EXCEPT ![c] = TRUE]
    /\ ePc' = [ePc EXCEPT ![c] = "deferRestore"]
    /\ UNCHANGED <<notExec, backend, eCmdLen, osStdout, eSaved, eStream, ePipe,
                   eSent, eOutBuf, dPc, eDoneCh, eDrainErr, eErr, eExit>>

\* deferred function, line 333: os.Stdout = stdout
PodmanDeferRestore(c) ==
    /\ backend = "podman"
    /\ ePc[c] = "deferRestore"
    /\ osStdout' = eSaved[c]
    /\ ePc' = [ePc EXCEPT ![c] = "deferWait"]
    /\ UNCHANGED <<notExec, backend, eCmdLen, eSaved, eStream, ePipe, eWClosed,
                   eSent, eOutBuf, dPc, eDoneCh, eDrainErr, eErr, eExit>>

\* deferred function, line 334: <-copyDone meets the goroutine's send at
\* line 328; ContainerExec returns
PodmanDeferWait(c) ==
    /\ backend = "podman"
    /\ ePc[c] = "deferWait"
    /\ dPc[c] = "send"
    /\ dPc' = [dPc EXCEPT ![c] = "done"]
    /\ ePc' = [ePc EXCEPT ![c] = "returned"]
    /\ UNCHANGED <<notExec, backend, eCmdLen, osStdout, eSaved, eStream, ePipe,
                   eWClosed, eSent, eOutBuf, eDoneCh, eDrainErr, eErr, eExit>>

\* docker ContainerExec, lines 497-510: ContainerExecCreate succeeded
DockerExecCreateOk(c) ==
    /\ backend = "docker"
    /\ ePc[c] = "called"
    /\ ePc' = [ePc EXCEPT ![c] = "attach"]
    /\ UNCHANGED <<notExec, backend, eCmdLen, osStdout, eSaved, eStream, ePipe,
                   eWClosed, eSent, eOutBuf, dPc, eDoneCh, eDrainErr, eErr,
                   eExit>>

\* lines 506-509: ContainerExecCreate failed; return ExecResult{}, err
DockerExecCreateFail(c) ==
    /\ backend = "docker"
    /\ ePc[c] = "called"
    /\ ePc' = [ePc EXCEPT ![c] = "returned"]
    /\ eErr' = [eErr EXCEPT ![c] = "createErr"]
    /\ UNCHANGED <<notExec, backend, eCmdLen, osStdout, eSaved, eStream, ePipe,
                   eWClosed, eSent, eOutBuf, dPc, eDoneCh, eDrainErr, eExit>>

\* lines 513-517: ContainerExecAttach succeeded
DockerExecAttachOk(c) ==
    /\ backend = "docker"
    /\ ePc[c] = "attach"
    /\ ePc' = [ePc EXCEPT ![c] = "spawn"]
    /\ UNCHANGED <<notExec, backend, eCmdLen, osStdout, eSaved, eStream, ePipe,
                   eWClosed, eSent, eOutBuf, dPc, eDoneCh, eDrainErr, eErr,
                   eExit>>

\* a ContainerExec that notes the error of ContainerExecAttach and goes on
\* to start the drain goroutine
DockerExecAttachFailNoReturn(c) ==
    /\ backend = "docker"
    /\ ePc[c] = "attach"
    /\ ePc' = [ePc EXCEPT ![c] = "spawn"]
    /\ eErr' = [eErr EXCEPT ![c] = "attachErr"]
    /\ UNCHANGED <<notExec, backend, eCmdLen, osStdout, eSaved, eStream, ePipe,
                   eWClosed, eSent, eOutBuf, dPc, eDoneCh, eDrainErr, eExit>>

\* lines 513-516: ContainerExecAttach failed; return ExecResult{}, err
DockerExecAttachFail(c) ==
    /\ backend = "docker"
    /\ ePc[c] = "attach"
    /\ ePc' = [ePc EXCEPT ![c] = "returned"]
    /\ eErr' = [eErr EXCEPT ![c] = "attachErr"]
    /\ UNCHANGED <<notExec, backend, eCmdLen, osStdout, eSaved, eStream, ePipe,
                   eWClosed, eSent, eOutBuf, dPc, eDoneCh, eDrainErr, eExit>>

\* lines 519-525: outputDone is made and the drain goroutine is started
DockerExecSpawn(c) ==
    /\ backend = "docker"
    /\ ePc[c] = "spawn"
    /\ dPc' = [dPc EXCEPT ![c] = "copy"]
    /\ ePc' = [ePc EXCEPT ![c] = "waitDone"]
    /\ UNCHANGED <<notExec, backend, eCmdLen, osStdout, eSaved, eStream, ePipe,
                   eWClosed, eSent, eOutBuf, eDoneCh, eDrainErr, eErr, eExit>>

\* line 523, inside StdCopy: the next byte of the attached stream is copied
\* into outBuf
DockerDrainRead(c) ==
    /\ backend = "docker"
    /\ dPc[c] = "copy"
    /\ eSent[c] < eCmdLen[c]
    /\ eOutBuf' = [eOutBuf EXCEPT ![c] = Append(@, Byte(c, eSent[c] + 1))]
    /\ eSent' = [eSent EXCEPT ![c] = eSent[c] + 1]
    /\ UNCHANGED <<notExec, backend, ePc, eCmdLen, osStdout, eSaved, eStream,
                   ePipe, eWClosed, dPc, eDoneCh, eDrainErr, eErr, eExit>>

\* lines 523-524: StdCopy sees the end of the stream; outputDone <- nil
DockerDrainEOF(c) ==
    /\ backend = "docker"
    /\ dPc[c] = "copy"
    /\ eSent[c] = eCmdLen[c]
    /\ eDoneCh' = [eDoneCh EXCEPT ![c] = "nil"]
    /\ dPc' = [dPc EXCEPT ![c] = "done"]
    /\ UNCHANGED <<notExec, backend, ePc, eCmdLen, osStdout, eSaved, eStream,
                   ePipe, eWClosed, eSent, eOutBuf, eDrainErr, eErr, eExit>>

\* lines 523-524: StdCopy ends with a read error; outputDone <- err
DockerDrainFail(c) ==
    /\ backend = "docker"
    /\ dPc[c] = "copy"
    /\ eDoneCh' = [eDoneCh EXCEPT ![c] = "readErr"]
    /\ eDrainErr' = [eDrainErr EXCEPT ![c] = TRUE]
    /\ dPc' = [dPc EXCEPT ![c] = "done"]
    /\ UNCHANGED <<notExec, backend, ePc, eCmdLen, osStdout, eSaved, eStream,
                   ePipe, eWClosed, eSent, eOutBuf, eErr, eExit>>

\* a ContainerExec that receives from outputDone and drops what it received
DockerExecDoneSwallow(c) ==
    /\ backend = "docker"
    /\ ePc[c] = "waitDone"
    /\ eDoneCh[c] # "empty"
    /\ eDoneCh' = [eDoneCh EXCEPT ![c] = "empty"]
    /\ ePc' = [ePc EXCEPT ![c] = "inspect"]
    /\ UNCHANGED <<notExec, backend, eCmdLen, osStdout, eSaved, eStream, ePipe,
                   eWClosed, eSent, eOutBuf, dPc, eDrainErr, eErr, eExit>>

\* lines 527-533: the select receives from outputDone; a non-nil error is
\* returned, otherwise the call goes on
DockerExecDone(c) ==
    /\ backend = "docker"
    /\ ePc[c] = "waitDone"
    /\ eDoneCh[c] # "empty"
    /\ eDoneCh' = [eDoneCh EXCEPT ![c] = "empty"]
    /\ ePc' = [ePc EXCEPT ![c] = IF eDoneCh[c] = "nil" THEN "inspect" ELSE "returned"]
    /\ eErr' = [eErr EXCEPT ![c] = IF eDoneCh[c] = "nil" THEN eErr[c] ELSE eDoneCh[c]]
    /\ UNCHANGED <<notExec, backend, eCmdLen, osStdout, eSaved, eStream, ePipe,
                   eWClosed, eSent, eOutBuf, dPc, eDrainErr, eExit>>

\* line 535: ContainerExecInspect is issued
DockerExecInspect(c) ==
    /\ backend = "docker"
    /\ ePc[c] = "inspect"
    /\ ePc' = [ePc EXCEPT ![c] = "inspecting"]
    /\ UNCHANGED <<notExec, backend, eCmdLen, osStdout, eSaved, eStream, ePipe,
                   eWClosed, eSent, eOutBuf, dPc, eDoneCh, eDrainErr, eErr,
                   eExit>>

\* lines 535,540: ContainerExecInspect succeeded; the ExecResult is returned
DockerExecInspectOk(c) ==
    /\ backend = "docker"
    /\ ePc[c] = "inspecting"
    /\ \E x \in ExitCodes : eExit' = [eExit EXCEPT ![c] = x]
    /\ eErr' = [eErr EXCEPT ![c] = "nil"]
    /\ ePc' = [ePc EXCEPT ![c] = "returned"]
    /\ UNCHANGED <<notExec, backend, eCmdLen, osStdout, eSaved, eStream, ePipe,
                   eWClosed, eSent, eOutBuf, dPc, eDoneCh, eDrainErr>>

\* lines 535-538: ContainerExecInspect failed; return ExecResult{}, err
DockerExecInspectFail(c) ==
    /\ backend = "docker"
    /\ ePc[c] = "inspecting"
    /\ eErr' = [eErr EXCEPT ![c] = "inspectErr"]
    /\ ePc' = [ePc EXCEPT ![c] = "returned"]
    /\ UNCHANGED <<notExec, backend, eCmdLen, osStdout, eSaved, eStream, ePipe,
                   eWClosed, eSent, eOutBuf, dPc, eDoneCh, eDrainErr, eExit>>

NextExec ==
    \E c \in Calls :
        \/ PodmanExecSave(c)
        \/ PodmanExecRedirect(c)
        \/ PodmanExecCreateOk(c)
        \/ PodmanExecCreateFail(c)
        \/ PodmanExecStreams(c)
        \/ PodmanAttachWrite(c)
        \/ PodmanAttachDone(c)
        \/ PodmanAttachFail(c)
        \/ PodmanExecSpawn(c)
        \/ PodmanDrainRead(c)
        \/ PodmanDrainEOF(c)
        \/ PodmanDrainFail(c)
        \/ PodmanExecInspect(c)
        \/ PodmanExecInspectOk(c)
        \/ PodmanExecInspectFail(c)
        \/ PodmanExecInspectRaced(c)
        \/ PodmanDeferClose(c)
        \/ PodmanDeferRestore(c)
        \/ PodmanDeferWait(c)
        \/ DockerExecCreateOk(c)
        \/ DockerExecCreateFail(c)
        \/ DockerExecAttachOk(c)
        \/ DockerExecAttachFail(c)
        \/ DockerExecSpawn(c)
        \/ DockerDrainRead(c)
        \/ DockerDrainEOF(c)
        \/ DockerDrainFail(c)
        \/ DockerExecDone(c)
        \/ DockerExecInspect(c)
        \/ DockerExecInspectOk(c)
        \/ DockerExecInspectFail(c)

SpecExec == InitExec /\ [][NextExec]_vars

\* Two ContainerExec calls have been made at the same time, by two
\* goroutines of a program that has loaded the plug-in.
InitExec2 ==
    /\ backend \in Backends
    /\ now = 0
    /\ MainIdle
    /\ WaitIdle
    /\ PullIdle
    /\ ePc = [c \in Calls |-> "called"]
    /\ eCmdLen \in [Calls -> 0..MaxOut]
    /\ osStdout = 0
    /\ eSaved = [c \in Calls |-> 0]
    /\ eStream = [c \in Calls |-> 0]
    /\ ePipe = [c \in Calls |-> <<>>]
    /\ eWClosed = [c \in Calls |-> FALSE]
    /\ eSent = [c \in Calls |-> 0]
    /\ eOutBuf = [c \in Calls |-> <<>>]
    /\ dPc = [c \in Calls |-> "none"]
    /\ eDoneCh = [c \in Calls |-> "empty"]
    /\ eDrainErr = [c \in Calls |-> FALSE]
    /\ eErr = [c \in Calls |-> "none"]
    /\ eExit = [c \in Calls |-> -1]

SpecExec2 == InitExec2 /\ [][NextExec]_vars

\* The steps of ContainerExec that the program and the engine take when
\* nothing goes wrong: every step but the failures of an engine call and of
\* a read.
ExecProgress ==
    \E c \in Calls :
        \/ PodmanExecSave(c)
        \/ PodmanExecRedirect(c)
        \/ PodmanExecCreateOk(c)
        \/ PodmanExecStreams(c)
        \/ PodmanAttachWrite(c)
        \/ PodmanAttachDone(c)
        \/ PodmanExecSpawn(c)
        \/ PodmanDrainRead(c)
        \/ PodmanDrainEOF(c)
        \/ PodmanExecInspect(c)
        \/ PodmanExecInspectOk(c)
        \/ PodmanDeferClose(c)
        \/ PodmanDeferRestore(c)
        \/ PodmanDeferWait(c)
        \/ DockerExecCreateOk(c)
        \/ DockerExecAttachOk(c)
        \/ DockerExecSpawn(c)
        \/ DockerDrainRead(c)
        \/ DockerDrainEOF(c)
        \/ DockerExecDone(c)
        \/ DockerExecInspect(c)
        \/ DockerExecInspectOk(c)

\* The scheduler runs every goroutine that can take a step, and an engine
\* call that can return does return; nothing obliges a call to fail.
SpecExecFair == SpecExec /\ WF_vars(ExecProgress)

-----------------------------------------------------------------------------
(***************************************************************************)
(* Errors of the docker backend.  An error value is a string: "nil" is no  *)
(* error, "operationTimeout" is the type of lines 97-103, "engineErr" is   *)
(* an error the engine reported, "DeadlineExceeded" and "ctxCanceled" are  *)
(* the two errors of a context, and "rawDeadline" is the error the docker  *)
(* client gives for a request whose context ran past its deadline.         *)
(***************************************************************************)

\* lines 90-95: only a passed deadline is turned into an operationTimeout
contextError(ctxErr) ==
    IF ctxErr = "DeadlineExceeded" THEN "operationTimeout" ELSE ctxErr

\* lines 97-103: the typed timeout error a caller can tell from the others
IsTimeoutError(err) == err = "operationTimeout"

-----------------------------------------------------------------------------
(***************************************************************************)
(* main: the dispatcher.  It loads the plug-in named on the command line,  *)
(* calls New and then runs the contract operations in a fixed order.  A    *)
(* contract call is one step here: the engine's part in it is an outcome   *)
(* and the operation's code turns the outcome into the error it returns.   *)
(***************************************************************************)

\* What the file ./<name>.so can be: absent; present but os.Stat fails for
\* another reason; not a loadable plug-in; a plug-in without the symbol
\* Driver; a plug-in whose Driver is not a driver.Driver; one of the two
\* backends.
Modules ==
    {"missing", "unreadable", "notPlugin", "noSymbol", "notDriver"}
        \cup Backends

\* the values of len(os.Args) that are tried
Argcs == 1..3

\* main, line 23
ArgsOk(argc) == argc = 2

\* main, lines 31-32: os.IsNotExist(err) after os.Stat(module)
StatNotExist(m) == m = "missing"

\* main, line 37: plugin.Open(module) fails
OpenFails(m) == m \in {"missing", "unreadable", "notPlugin"}

\* main, lines 42-43: p.Lookup("Driver") fails
LookupFails(m) == m = "noSymbol"

\* a type assertion whose result ok is not looked at
IsDriverUnchecked(m) == TRUE

\* main, lines 49-50: symDriver.(driver.Driver)
IsDriver(m) == m \in Backends

\* main, lines 56-188: the contract calls of the run, in order
MainOps ==
    << "ImagesPull", "ImagesList", "ImageInspect", "ContainerCreate",
       "ContainerStart", "ContainerWait", "ContainerList",
       "ContainerInspect", "NetworkCreate", "NetworkInspect",
       "NetworkConnect", "ContainerExec", "ContainerExec",
       "NetworkDisconnect", "ContainerStop", "ContainerRemove",
       "NetworkRemove" >>

\* docker operations that make their context with getTimeoutContext or
\* context.WithTimeout
TimeoutOps ==
    {"ImagesList", "ImageInspect", "ContainerCreate", "ContainerStart",
     "ContainerWait", "ContainerList", "ContainerInspect", "NetworkCreate",
     "NetworkInspect", "NetworkConnect", "ContainerExec",
     "NetworkDisconnect", "ContainerStop", "ContainerRemove",
     "NetworkRemove"}

\* docker operations that call contextError(ctx) after the engine call
CheckedOps == TimeoutOps \ {"ContainerCreate", "ContainerWait", "ContainerExec"}

\* What the engine can do in a call of op on backend b.  "noSession": New
\* failed, so the plug-in has no client (docker) or no connection context
\* (podman).  "timeout": the call is still running at the deadline of its
\* context.  "stall": the pull stops sending progress events.  "okEmpty":
\* the list call succeeds with an empty list.
EngineOutcomes(b, op, new) ==
    IF new = "failed" THEN {"noSession"}
    ELSE {"ok", "engineErr"}
           \cup (IF b = "docker" /\ op \in TimeoutOps THEN {"timeout"} ELSE {})
           \cup (IF b = "docker" /\ op = "ImagesPull" THEN {"stall"} ELSE {})
           \cup (IF op = "ContainerList" THEN {"okEmpty"} ELSE {})

\* The errors a docker operation can return for an outcome of the engine.
DockerReturns(op, o) ==
    CASE o = "noSession" -> {"panic", "engineErr"}
      [] o \in {"ok", "okEmpty"} -> {"nil"}
      [] o = "stall" -> {"ctxCanceled"}
      [] o = "engineErr" ->
            IF op = "ContainerWait" THEN {"DeadlineExceeded"}
            ELSE {"engineErr"}
      [] o = "timeout" ->
            IF op \in CheckedOps THEN {contextError("DeadlineExceeded")}
            ELSE IF op = "ContainerWait" THEN {"DeadlineExceeded"}
            ELSE {"rawDeadline"}

\* The errors a podman operation can return for an outcome of the engine.
PodmanReturns(op, o) ==
    CASE o = "noSession" -> {"panic", "engineErr"}
      [] o \in {"ok", "okEmpty"} -> {"nil"}
      [] o = "engineErr" ->
            IF op = "NetworkInspect" THEN {"panic"} ELSE {"engineErr"}

OpReturns(b, op, o) ==
    IF b = "docker" THEN DockerReturns(op, o) ELSE PodmanReturns(op, o)

\* main has been started with some command line and some ./<name>.so
InitMain ==
    /\ mModule \in Modules
    /\ backend = (IF mModule \in Backends THEN mModule ELSE "none")
    /\ now = 0
    /\ WaitIdle /\ PullIdle /\ ExecIdle
    /\ mPc = "args" /\ mArgc \in Argcs /\ mNew = "none"
    /\ mStep = 0 /\ mCalls = <<>> /\ mOp = "none" /\ mOutcome = "none"
    /\ mErr = "none" /\ mExit = -1

\* os.Exit(code), or the end of the process after a panic (status 2)
MainExit(code) == mPc' = "exited" /\ mExit' = code

\* lines 23-26
MainArgsBad ==
    /\ mPc = "args" /\ ~ArgsOk(mArgc)
    /\ MainExit(1)
    /\ UNCHANGED <<notMain, backend, mArgc, mModule, mNew, mStep, mCalls,
                   mOp, mOutcome, mErr>>

\* lines 23, 28-30
MainArgsOk ==
    /\ mPc = "args" /\ ArgsOk(mArgc)
    /\ mPc' = "stat"
    /\ UNCHANGED <<notMain, backend, mArgc, mModule, mNew, mStep, mCalls,
                   mOp, mOutcome, mErr, mExit>>

\* lines 31-35
MainStatMissing ==
    /\ mPc = "stat" /\ StatNotExist(mModule)
    /\ MainExit(1)
    /\ UNCHANGED <<notMain, backend, mArgc, mModule, mNew, mStep, mCalls,
                   mOp, mOutcome, mErr>>

\* lines 31-32: any other result of os.Stat lets main go on
MainStatOther ==
    /\ mPc = "stat" /\ ~StatNotExist(mModule)
    /\ mPc' = "open"
    /\ UNCHANGED <<notMain, backend, mArgc, mModule, mNew, mStep, mCalls,
                   mOp, mOutcome, mErr, mExit>>

\* lines 37-40
MainOpenFail ==
    /\ mPc = "open" /\ OpenFails(mModule)
    /\ MainExit(1)
    /\ UNCHANGED <<notMain, backend, mArgc, mModule, mNew, mStep, mCalls,
                   mOp, mOutcome, mErr>>

\* line 37
MainOpenOk ==
    /\ mPc = "open" /\ ~OpenFails(mModule)
    /\ mPc' = "lookup"
    /\ UNCHANGED <<notMain, backend, mArgc, mModule, mNew, mStep, mCalls,
                   mOp, mOutcome, mErr, mExit>>

\* lines 42-46
MainLookupFail ==
    /\ mPc = "lookup" /\ LookupFails(mModule)
    /\ MainExit(1)
    /\ UNCHANGED <<notMain, backend, mArgc, mModule, mNew, mStep, mCalls,
                   mOp, mOutcome, mErr>>

\* lines 42-43
MainLookupOk ==
    /\ mPc = "lookup" /\ ~LookupFails(mModule)
    /\ mPc' = "assert"
    /\ UNCHANGED <<notMain, backend, mArgc, mModule, mNew, mStep, mCalls,
                   mOp, mOutcome, mErr, mExit>>

\* lines 48-53
MainAssertFail ==
    /\ mPc = "assert" /\ ~IsDriver(mModule)
    /\ MainExit(1)
    /\ UNCHANGED <<notMain, backend, mArgc, mModule, mNew, mStep, mCalls,
                   mOp, mOutcome, mErr>>

\* lines 49-50
MainAssertOk ==
    /\ mPc = "assert" /\ IsDriver(mModule)
    /\ mPc' = "new"
    /\ UNCHANGED <<notMain, backend, mArgc, mModule, mNew, mStep, mCalls,
                   mOp, mOutcome, mErr, mExit>>

\* line 54: drv.New() is called as a statement, so what it returns is
\* dropped and main goes on to line 56 whether New succeeded or failed.
MainNew(result) ==
    /\ mNew' = result
    /\ mCalls' = Append(mCalls, "New")
    /\ mPc' = "run" /\ mStep' = 1

\* New returned nil (docker.go line 83, podman.go line 49)
MainNewOk ==
    /\ mPc = "new"
    /\ MainNew("ok")
    /\ UNCHANGED <<notMain, backend, mArgc, mModule, mOp, mOutcome, mErr,
                   mExit>>

\* New returned an error (docker.go lines 70-73, podman.go lines 41-44)
MainNewFail ==
    /\ mPc = "new"
    /\ MainNew("failed")
    /\ UNCHANGED <<notMain, backend, mArgc, mModule, mOp, mOutcome, mErr,
                   mExit>>

\* One contract call of the run: the call of MainOps[mStep] is made, the
\* engine does o and the operation returns r.
MainCall(o, r) ==
    /\ mPc = "run" /\ mStep \in 1..Len(MainOps)
    /\ o \in EngineOutcomes(backend, MainOps[mStep], mNew)
    /\ r \in OpReturns(backend, MainOps[mStep], o)
    /\ mCalls' = Append(mCalls, MainOps[mStep])
    /\ mOp' = MainOps[mStep] /\ mOutcome' = o /\ mErr' = r

\* the error results of a call
ErrorResults ==
    {"engineErr", "operationTimeout", "DeadlineExceeded", "rawDeadline",
     "ctxCanceled"}

\* the call returned no error: main goes on to the next step
MainCallOk ==
    /\ \E o \in {"ok"} : MainCall(o, "nil")
    /\ mStep' = mStep + 1
    /\ UNCHANGED <<notMain, backend, mPc, mArgc, mModule, mNew, mExit>>

\* lines 105-110: ContainerList returned an empty list and no error; main
\* indexes containerList[0] and panics
MainListEmpty ==
    /\ MainCall("okEmpty", "nil")
    /\ MainExit(2)
    /\ UNCHANGED <<notMain, backend, mArgc, mModule, mNew, mStep>>

\* lines 56-59: the error of ImagesPull is printed and the run goes on
MainPullErr ==
    /\ mStep = 1
    /\ \E o \in {"engineErr", "stall", "noSession"} :
          \E r \in ErrorResults : MainCall(o, r)
    /\ mStep' = mStep + 1
    /\ UNCHANGED <<notMain, backend, mPc, mArgc, mModule, mNew, mExit>>

\* lines 61-192: the error of any later call is printed and ends the
\* process with os.Exit(1)
MainCallErr ==
    /\ mStep > 1
    /\ \E o \in {"engineErr", "timeout", "noSession"} :
          \E r \in ErrorResults : MainCall(o, r)
    /\ MainExit(1)
    /\ UNCHANGED <<notMain, backend, mArgc, mModule, mNew, mStep>>

\* the operation panicked: the process ends with status 2
MainCallPanic ==
    /\ \E o \in {"engineErr", "noSession"} : MainCall(o, "panic")
    /\ MainExit(2)
    /\ UNCHANGED <<notMain, backend, mArgc, mModule, mNew, mStep>>

\* line 193: main returns after the last call
MainReturn ==
    /\ mPc = "run" /\ mStep = Len(MainOps) + 1
    /\ MainExit(0)
    /\ UNCHANGED <<notMain, backend, mArgc, mModule, mNew, mStep, mCalls,
                   mOp, mOutcome, mErr>>

NextMain ==
    \/ MainArgsBad
    \/ MainArgsOk
    \/ MainStatMissing
    \/ MainStatOther
    \/ MainOpenFail
    \/ MainOpenOk
    \/ MainLookupFail
    \/ MainLookupOk
    \/ MainAssertFail
    \/ MainAssertOk
    \/ MainNewOk
    \/ MainNewFail
    \/ MainCallOk
    \/ MainListEmpty
    \/ MainPullErr
    \/ MainCallErr
    \/ MainCallPanic
    \/ MainReturn

SpecMain == InitMain /\ [][NextMain]_vars

-----------------------------------------------------------------------------
(***************************************************************************)
(* Properties of ContainerWait                                             *)
(***************************************************************************)

\* C3: docker ContainerWait with interval > 0 and timeout > interval: a poll
\* that reports the target state makes the call return success at once, a
\* successful call has issued at most ceil(timeout/interval) inspect calls,
\* and no inspect call is issued after the poll that saw the target state.
C3_SuccessWithinPollBound ==
    (backend = "docker" /\ wInterval > 0 /\ wTimeout > wInterval) =>
        /\ (wHits > 0 => wPc = "returned" /\ wRes = "nil")
        /\ (wRes = "nil" => wPolls <= CeilDiv(wTimeout, wInterval))
        /\ wPollsAfterHit = 0

\* a successful docker wait that needed several polls, one of which failed
C3_Witness ==
    /\ backend = "docker" /\ wTimeout > wInterval
    /\ wPc = "returned" /\ wRes = "nil"
    /\ wHits = 1 /\ wPolls >= 2 /\ wFails >= 1

\* C4: docker ContainerWait whose polls never report the target state
\* returns the timeout failure; any failure is returned no earlier than
\* `timeout` after the call began (time 0) and no later than one interval
\* after that, and the call is not still running later than that.
C4_TimeoutNeverEarly ==
    backend = "docker" =>
        /\ (wPc = "returned" /\ wHits = 0 => wRes = "DeadlineExceeded")
        /\ (wRes \notin {"none", "nil"} =>
               /\ wRetAt >= wTimeout
               /\ wRetAt <= wTimeout + wInterval)
        /\ (wPc # "returned" => now <= wTimeout + wInterval)

\* a docker wait that polled several times, never saw the target, timed out
C4_Witness ==
    /\ backend = "docker"
    /\ wPc = "returned" /\ wRes = "DeadlineExceeded"
    /\ wHits = 0 /\ wPolls >= 2 /\ ~wSawTarget

\* C5: on every backend ContainerWait terminates: it is not still running
\* once more than timeout + interval has elapsed, and when the container was
\* never in the target state it returns a failure.
C5_WaitTerminatesOnEveryBackend ==
    /\ (now > wTimeout + wInterval => wPc = "returned")
    /\ (wPc = "returned" /\ ~wSawTarget => wRes # "nil")

\* C6: on every backend ContainerWait returns success only when the state
\* the container reports equals the targetState argument.
C6_SuccessOnlyOnTargetState ==
    (wPc = "returned" /\ wRes = "nil") => cstate = wStatus

C19_FailedInspectIsRetried ==
    /\ [][(backend = "docker" /\ wPc = "inspecting" /\ wFails' > wFails) =>
            (wPc' = "select" /\ wRes' = "none")]_vars
    /\ []((backend = "docker" /\ wFails > 0 /\ wHits > 0) =>
            (wPc = "returned" /\ wRes = "nil"))

\* a docker wait that succeeded after two failed inspect calls
C19_Witness ==
    /\ backend = "docker" /\ wPc = "returned" /\ wRes = "nil"
    /\ wFails >= 2 /\ wHits = 1 /\ wRetAt < wDeadline

-----------------------------------------------------------------------------
(***************************************************************************)
(* Properties of ImagesPull and its watchdog                               *)
(***************************************************************************)

\* C8: whenever the watchdog has called cancel, some stretch of the pull
\* without any progress event (from the reporter's creation to the first
\* event, or between two events, or since the last one) was longer than the
\* stall deadline: with every gap at most the deadline it never cancels.
\* At the tick that made it cancel, the time since the timestamp it read
\* under the lock was longer than the stall deadline.
C8_CancelOnlyAfterStall ==
    wdCancels > 0 =>
        /\ pMaxGap > StallDeadline
        /\ now - wdTs > StallDeadline
        /\ wdTs <= pLastEvAt

\* the watchdog cancelled a pull that had made progress before it stalled
C8_Witness ==
    /\ wdCancels > 0 /\ pEvents >= 1 /\ progTs > 0 /\ wdTs = progTs

\* C9: while a pull is in flight and has not been cancelled by a watchdog,
\* the time since the last progress event is at most the stall deadline plus
\* one check interval; a watchdog cancels at most once and is gone after it.
C9_StallIsCancelledWithinOneInterval ==
    /\ (PullInFlight /\ wdCancels = 0 =>
           now - pLastEvAt <= StallDeadline + CheckInterval)
    /\ wdCancels <= 1
    /\ (wdCancels > 0 => wdPc = "exited")

\* the docker half of C9: what the watchdog of progressReporter.start does
DockerStallIsCancelledWithinOneInterval ==
    backend = "docker" => C9_StallIsCancelledWithinOneInterval

\* C10: once stopCh is closed and the watchdog has not cancelled, the
\* watchdog never calls the cancellation function.
C10_NoCancelAfterStop ==
    [][(stopClosed /\ wdCancels = 0) => wdCancels' = 0]_vars

\* C11: a docker ImagesPull whose context the watchdog has cancelled while
\* the pull was decoding returns an error, and that error is the typed
\* timeout error; it never returns success.
C11_CancelledPullReturnsTimeout ==
    [][(backend = "docker" /\ pPc = "decode" /\ wdCancels > 0
            /\ pPc' = "returned") => IsTimeoutError(pRes')]_vars

\* C21: the docker decode loop is left in one of three ways: end of stream
\* returns nil, a decode error returns that error, an event with an error
\* field returns that error; otherwise the event goes to set.  An event
\* with an error field is never recorded, and whenever the loop decodes (or
\* has returned) every event without an error field decoded so far has been
\* recorded.
C21_DecodeLoopEndsThreeWays ==
    /\ [][(backend = "docker" /\ pPc = "decode" /\ pPc' # "decode") =>
            \/ pPc' = "returned"
                  /\ pRes' \in {"nil", "decodeErr", "ctxCanceled", "msgErr"}
                  /\ progMsg' = progMsg /\ pEvents' = pEvents
            \/ pPc' = "setLock" /\ pRes' = "none"
                  /\ pMsg' = pEvents' /\ progMsg' = progMsg]_vars
    /\ []((backend = "docker" /\ pPc \in {"decode", "returned"}) =>
            progMsg = pEvents)

\* the loop recorded two events and then returned the error of a third
C21_Witness ==
    /\ backend = "docker" /\ pPc = "returned" /\ pRes = "msgErr"
    /\ pEvents = MaxEvents /\ progMsg = pEvents

\* C22: the pair (message, timestamp) that get returns was written by one
\* completed set, or is the initial pair; the read lock and the write lock
\* are never held together, and while get holds the read lock the stored
\* pair does not change, so that the pair returned is the one of the most
\* recent set completed before get took the lock; whenever no set holds the
\* write lock the stored message and timestamp are of the same set; the
\* stored timestamp never decreases.
C22_GetReturnsOneSetsPair ==
    /\ [](wdPc # "getTs" => wdMsg = wdTsOf)
    /\ [](~(lockR /\ lockW))
    /\ [](~lockW => progMsg = progTsOf)
    /\ [][lockR => (progMsg' = progMsg /\ progTs' = progTs
                      /\ progTsOf' = progTsOf)]_vars
    /\ [][progTs' >= progTs]_vars

\* get returned the pair of the first set while the second set was waiting
\* for the lock
C22_Witness ==
    /\ wdPc = "check" /\ wdMsg = 1 /\ wdTsOf = 1
    /\ pPc = "setLock" /\ pMsg = 2

-----------------------------------------------------------------------------
(***************************************************************************)
(* Properties of main and of the errors the operations return              *)
(***************************************************************************)

\* C12: a docker operation that runs under a context with a deadline
\* returns an operationTimeout when the call ran past the deadline, and
\* the engine's error when the engine reported one.
C12_TimeoutIsTyped ==
    (backend = "docker" /\ mOp \in TimeoutOps) =>
        /\ (mOutcome = "timeout" => IsTimeoutError(mErr))
        /\ (mOutcome = "engineErr" => mErr = "engineErr")

\* the part of C12 the code keeps: the docker operations that call
\* contextError after the engine call
CheckedOpsTimeoutIsTyped ==
    (backend = "docker" /\ mOp \in CheckedOps) =>
        /\ (mOutcome = "timeout" => IsTimeoutError(mErr))
        /\ (mOutcome = "engineErr" => mErr = "engineErr")

\* C13: when New has failed, the process exits without any contract call
\* after New.
C13_NoCallAfterFailedNew ==
    mNew = "failed" =>
        /\ mCalls = <<"New">>
        /\ (mPc = "exited" => mExit # 0)

\* C14: when ./<name>.so is absent, or has no symbol Driver, or its Driver
\* is not a driver.Driver, no contract call is ever made (New included)
\* and the process ends with exit status 1.
C14_NoCallOnUnresolvedBackend ==
    (mPc # "idle" /\ mModule \notin Backends) =>
        /\ mCalls = <<>>
        /\ mNew = "none"
        /\ mPc \in {"args", "stat", "open", "lookup", "assert", "exited"}
        /\ (mPc = "exited" => mExit = 1)

\* main has exited on a plug-in whose Driver is not a driver.Driver
C14_Witness ==
    /\ mModule = "notDriver" /\ mArgc = 2
    /\ mPc = "exited" /\ mExit = 1 /\ mCalls = <<>>

\* C16: with a session established, no contract operation panics when the
\* engine reports an error: the operation returns an error.
C16_EngineErrorNeverPanics ==
    (mNew = "ok" /\ mOutcome = "engineErr") =>
        (mErr \in ErrorResults /\ mExit # 2)

\* C25: with a session established, the contract calls made so far are
\* New followed by a prefix of the fixed order of the run; an error of
\* ImagesPull leaves the run going; a later call that fails (returns an
\* error or panics) is the last call made and ends the process with exit
\* status 1.
C25_FixedOrderAndFirstFailureExits ==
    mNew = "ok" =>
        /\ mCalls = <<"New">> \o SubSeq(MainOps, 1, Len(mCalls) - 1)
        /\ (Len(mCalls) = 2 /\ mErr \in ErrorResults) => mPc = "run"
        /\ (Len(mCalls) > 2 /\ mErr \in ErrorResults \cup {"panic"}) =>
               (mPc = "exited" /\ mExit = 1)

\* what the code keeps of C25: the same with a call that panics left out
FixedOrderAndFirstErrorExits ==
    mNew = "ok" =>
        /\ mCalls = <<"New">> \o SubSeq(MainOps, 1, Len(mCalls) - 1)
        /\ (Len(mCalls) = 2 /\ mErr \in ErrorResults) => mPc = "run"
        /\ (Len(mCalls) > 2 /\ mErr \in ErrorResults) =>
               (mPc = "exited" /\ mExit = 1)
        /\ (mPc = "exited" /\ mExit = 0) => Len(mCalls) = Len(MainOps) + 1

-----------------------------------------------------------------------------
(***************************************************************************)
(* Properties of ContainerExec                                             *)
(***************************************************************************)

\* C1: on every backend, while the exit-code query (ContainerExecInspect /
\* ExecInspect) of a ContainerExec call is issued, the call's drain
\* goroutine has finished copying and has signalled completion.
C1_InspectOnlyAfterDrain ==
    \A c \in Calls : ePc[c] = "inspecting" => dPc[c] = "done"

\* the docker half of C1
DockerInspectOnlyAfterDrain ==
    backend = "docker" => C1_InspectOnlyAfterDrain

\* C2: when a podman ContainerExec call has returned, os.Stdout is again
\* what it was when the call began (the process's own stdout), whatever
\* the exit path.
C2_StdoutRestoredOnEveryPath ==
    \A c \in Calls :
        (backend = "podman" /\ ePc[c] = "returned") =>
            (osStdout = eSaved[c] /\ osStdout # c)

\* the half of C2 the code keeps: the paths that run the deferred function
PodmanStdoutRestoredAfterDefer ==
    \A c \in Calls :
        (backend = "podman" /\ ePc[c] = "returned"
             /\ eErr[c] \in {"nil", "inspectErr"}) => osStdout = eSaved[c]

\* C15: on every backend, when ContainerExec returns a result for a command
\* that wrote eCmdLen bytes, outBuf holds exactly those bytes in the order
\* they were written, and the drain goroutine has finished, so that no byte
\* is appended after the return.
C15_OutputCompleteAtReturn ==
    \A c \in Calls :
        (ePc[c] = "returned" /\ eErr[c] = "nil") =>
            (eOutBuf[c] = CmdOutput(c) /\ dPc[c] = "done")

\* the docker half of C15
DockerOutputCompleteAtReturn ==
    backend = "docker" => C15_OutputCompleteAtReturn

\* what podman keeps of C15: the output is complete unless io.Copy failed
PodmanOutputCompleteUnlessReadError ==
    \A c \in Calls :
        (backend = "podman" /\ ePc[c] = "returned" /\ eErr[c] = "nil"
            /\ ~eDrainErr[c]) =>
            (eOutBuf[c] = CmdOutput(c) /\ dPc[c] = "done")

\* C17: when ImagesPull has returned its watchdog goroutine has terminated
\* (or was never started), and when a ContainerExec call has returned its
\* drain goroutine has terminated (or was never started).
C17_BackgroundTasksDoneAtReturn ==
    /\ (pPc = "returned" => wdPc \in {"none", "exited"})
    /\ \A c \in Calls : ePc[c] = "returned" => dPc[c] \in {"none", "done"}

\* the half of C17 the code keeps: the drain goroutine of ContainerExec
ExecDrainDoneAtReturn ==
    \A c \in Calls : ePc[c] = "returned" => dPc[c] \in {"none", "done"}

\* C18 as stated: after a read error of the drain, ContainerExec returns
\* what the exit-code query gave (a result, or the query's error) and never
\* the read error.
C18_DrainErrorNeverSurfaced ==
    \A c \in Calls :
        (eDrainErr[c] /\ ePc[c] = "returned") =>
            eErr[c] \in {"nil", "inspectErr"}

\* C18 as the code has it: after a read error of the drain, the docker
\* ContainerExec returns the read error with no result and without the
\* exit-code query; the podman ContainerExec always goes through the
\* exit-code query and returns its result or its error, or, through the
\* unsynchronised err, the read error with no result.
C18_DrainErrorSurfacedOnDocker ==
    \A c \in Calls :
        /\ (eDrainErr[c] /\ ePc[c] \in {"inspect", "inspecting"}) =>
               backend = "podman"
        /\ (eDrainErr[c] /\ ePc[c] = "returned") =>
               IF backend = "docker"
               THEN eErr[c] = "readErr" /\ eExit[c] = -1
               ELSE /\ eErr[c] \in {"nil", "inspectErr", "readErr"}
                    /\ (eErr[c] = "nil") = (eExit[c] \in ExitCodes)

\* a docker call returned the read error after part of the output was read
C18_Witness ==
    /\ backend = "docker" /\ ePc[1] = "returned" /\ eDrainErr[1]
    /\ eErr[1] = "readErr" /\ Len(eOutBuf[1]) >= 1

\* a podman call returned a result although its drain had a read error
PodmanDrainErrorSwallowed ==
    /\ backend = "podman" /\ ePc[1] = "returned" /\ eDrainErr[1]
    /\ eErr[1] = "nil"

\* C20: on every backend, a ContainerExec call whose exec-create or whose
\* exec-start/attach failed has returned that error with no result; its
\* drain goroutine was never started, nothing was copied to outBuf and
\* nothing was sent on or received from its completion channel.
C20_EarlyErrorStartsNoDrain ==
    \A c \in Calls :
        (eErr[c] \in {"createErr", "attachErr"}) =>
            /\ ePc[c] = "returned"
            /\ eExit[c] = -1
            /\ dPc[c] = "none" /\ ~eDrainErr[c]
            /\ eOutBuf[c] = <<>>
            /\ eDoneCh[c] = "empty"

\* a podman call whose exec-start failed after the command had written
C20_Witness ==
    /\ backend = "podman"
    /\ ePc[1] = "returned" /\ eErr[1] = "attachErr" /\ eSent[1] >= 1
    /\ dPc[1] = "none"

\* C23: a podman ContainerExec whose exec-create succeeded and whose
\* command has been started returns in the end, however many bytes the
\* command writes.
C23_PodmanExecReturns ==
    \A c \in Calls :
        (backend = "podman" /\ ePc[c] = "attach") ~> (ePc[c] = "returned")

\* what the code keeps of C23: the call returns when the whole output of
\* the command fits into the pipe
PodmanExecReturnsWithinPipe ==
    \A c \in Calls :
        (backend = "podman" /\ ePc[c] = "attach" /\ eCmdLen[c] <= PipeCap)
            ~> (ePc[c] = "returned")

\* the state a longer output ends in: the pipe is full, the command has
\* more to write, and the goroutine that would read is not started
PodmanWriterStuck ==
    /\ backend = "podman" /\ ePc[1] = "attach" /\ dPc[1] = "none"
    /\ eStream[1] = 1 /\ Len(ePipe[1]) = PipeCap /\ eSent[1] < eCmdLen[1]

\* the bytes of b were all written by the command of call c
OwnOutput(b, c) ==
    \A i \in 1..Len(b) : \E k \in 1..eCmdLen[c] : b[i] = Byte(c, k)

\* C24: when two concurrent podman ContainerExec calls have both returned
\* through their deferred functions, os.Stdout is the process's own stdout
\* again and the buffer of each call holds only bytes of its own command.
C24_ConcurrentExecsRestoreStdout ==
    (backend = "podman"
       /\ \A c \in Calls :
             ePc[c] = "returned" /\ eErr[c] \in {"nil", "inspectErr"}) =>
        /\ osStdout = 0
        /\ \A c \in Calls : OwnOutput(eOutBuf[c], c)

\* the second half of C24 alone
ConcurrentExecsKeepOutputApart ==
    (backend = "podman"
       /\ \A c \in Calls :
             ePc[c] = "returned" /\ eErr[c] \in {"nil", "inspectErr"}) =>
        \A c \in Calls : OwnOutput(eOutBuf[c], c)

=============================================================================
